---- MODULE Spec2Model ----
(***************************************************************************)
(* Model of ImageClassifier/train.py: the command line (parse_args), the   *)
(* model assembly (load_model), the training / validation loop             *)
(* (train_model), the checkpoint writer (save_checkpoint) and main, which  *)
(* runs them in sequence.                                                  *)
(*                                                                         *)
(* Tensors are abstracted: a parameter group's value is an integer that    *)
(* starts at the value the group has at assembly and grows by one with     *)
(* every optimizer update of the group; a loss is a small integer.  A      *)
(* report is recorded by its position (epoch, cumulative step, batch of    *)
(* the epoch); the numbers it prints are running_loss, test_loss and       *)
(* accuracy of the state it is made in, divided by print_every and by the  *)
(* length of the validation loader, which ImageFolder keeps above zero.    *)
(***************************************************************************)
EXTENDS Integers, Sequences, FiniteSets, TLC

\* ------------------------------------------------------------- bounds
MaxEpochs == 2
MaxBatches == 12
MaxValBatches == 2
MaxHidden == 7

\* ------------------------------------------------- program constants
print_every == 5
output_size == 102
DefaultHidden == 512
VggFeatures == 25088
DenseFeatures == 1024

\* argparse choices of --arch
ArchChoices == {"vgg16", "densenet121"}
\* names a caller can pass; the last two are not among the choices
ArchNames == ArchChoices \cup {"resnet18", "alexnet"}
HiddenChoices == {DefaultHidden, 256}
\* per-batch training loss values
Losses == {1, 2}
\* per-validation-batch <<loss, batch accuracy>>
ValOutcomes == {<<1, 0>>, <<2, 1>>}

BackboneParams == {"features"}
HeadParams == {"classifier.fc1", "classifier.fc2", "classifier.fc3"}
AllParams == BackboneParams \cup HeadParams

\* class_to_idx of image_datasets[0], the train ImageFolder
TrainClassToIdx == [c \in {"1", "10", "100"} |-> IF c = "1" THEN 0 ELSE IF c = "10" THEN 1 ELSE 2]
NoClassToIdx == [c \in {} |-> 0]

VARIABLES pc, args, trainBatches, validBatches, model, optimizer, assembled,
          epoch, batch, steps, running_loss, lossLog, vbatch, visited,
          test_loss, accuracy, reports, disk, saveCalls, lmResult

vars == <<pc, args, trainBatches, validBatches, model, optimizer, assembled,
          epoch, batch, steps, running_loss, lossLog, vbatch, visited,
          test_loss, accuracy, reports, disk, saveCalls, lmResult>>

loopVars == <<epoch, batch, steps, running_loss, lossLog, vbatch, visited,
              test_loss, accuracy, reports>>

\* ---------------------------------------------------------- load_model
PretrainedWeights(backbone) == IF backbone = "vgg16" THEN 16 ELSE 121

FreezeAll_skipped(ps) == [p \in ps |-> TRUE]
\* for param in model.parameters(): param.requires_grad = False
FreezeAll(ps) == [p \in ps |-> FALSE]

NewClassifier(num_in_features, hidden_units) ==
    [fc1 |-> <<num_in_features, hidden_units>>,
     fc2 |-> <<hidden_units, hidden_units>>,
     fc3 |-> <<hidden_units, output_size>>]

load_model(arch, hidden_units, gpu) ==
    LET device == IF gpu THEN "cuda" ELSE "cpu"
        backbone == IF arch = "vgg16" THEN "vgg16" ELSE "densenet121"
        num_in_features == IF arch = "vgg16" THEN VggFeatures ELSE DenseFeatures
    IN  [status |-> "ok",
         model |-> [backbone |-> backbone,
                    classifier |-> NewClassifier(num_in_features, hidden_units),
                    params |-> [p \in AllParams |->
                                   IF p \in BackboneParams
                                   THEN PretrainedWeights(backbone) ELSE 0],
                    requires_grad |-> FreezeAll(BackboneParams)
                                        @@ [p \in HeadParams |-> TRUE],
                    training |-> TRUE,
                    class_to_idx |-> NoClassToIdx,
                    device |-> device],
         device |-> device,
         num_in_features |-> num_in_features]

NoModel == [backbone |-> "", classifier |-> NewClassifier(0, 0),
            params |-> [p \in AllParams |-> 0],
            requires_grad |-> [p \in AllParams |-> FALSE],
            training |-> TRUE, class_to_idx |-> NoClassToIdx, device |-> ""]
NoResult == [status |-> "pending", model |-> NoModel, device |-> "", num_in_features |-> 0]

state_dict(m) == m.params

\* optim.Adam(model.classifier.parameters(), lr=args.learning_rate)
Adam(ps, lr) == [params |-> ps, lr |-> lr, step |-> 0]
NoOptimizer == [params |-> {}, lr |-> "", step |-> 0]

\* optimizer.step(): a parameter the optimizer holds that has a gradient moves
OptimizerStep(m, opt) ==
    [p \in AllParams |-> IF p \in opt.params /\ m.requires_grad[p]
                         THEN m.params[p] + 1 ELSE m.params[p]]

\* ---------------------------------------------------------- parse_args
DefaultLrn == "0.001"
DefaultSaveDir == "train_checkpoint.pth"

\* what the command line can carry; --arch is checked by parse_args
ArgSpace == [arch : ArchNames, hidden_units : HiddenChoices,
             epochs : 0..MaxEpochs, gpu : BOOLEAN,
             learning_rate : {DefaultLrn}, save_dir : {DefaultSaveDir}]

\* choices=['vgg16', 'densenet121']: argparse exits on any other name
ArchAccepted(a) == a \in ArchChoices

\* ------------------------------------------------------- train_model
\* for epoch in range(epochs)
EpochLoopContinues_early(e, n) == e < n /\ running_loss <= print_every
EpochLoopContinues_once(e, n) == e <= n
EpochLoopContinues(e, n) == e < n

\* if steps % print_every == 0
ValidationDue_perEpoch(st) == (batch + 1) % print_every = 0
ValidationDue_off(st) == st % (print_every - 1) = 0
ValidationDue(st) == st % print_every = 0

\* running_loss += loss.item()
AccumulateLoss_overwrites(rl, l) == l
AccumulateLoss(rl, l) == rl + l

\* model.train() after the report
ModeAfterReport_eval == FALSE
ModeAfterReport == TRUE

\* no try/except around a batch: the exception unwinds train_model and main
OnBatchFailure_saves == "save"
OnBatchFailure == "failed"

\* ---------------------------------------------------- save_checkpoint
Bundle_headOnly(m, class_to_idx, epochs, opt, learning_rate, input_size, out_size, arch, hidden_units) ==
    [pretrained_model |-> arch, input_size |-> input_size, output_size |-> out_size,
     learning_rate |-> learning_rate, hidden_units |-> hidden_units,
     classifier |-> m.classifier, epochs |-> epochs,
     state_dict |-> [p \in AllParams |-> IF p \in HeadParams THEN m.params[p] ELSE 0],
     class_to_idx |-> class_to_idx,
     optimizer |-> opt]
Bundle(m, class_to_idx, epochs, opt, learning_rate, input_size, out_size, arch, hidden_units) ==
    [pretrained_model |-> arch, input_size |-> input_size, output_size |-> out_size,
     learning_rate |-> learning_rate, hidden_units |-> hidden_units,
     classifier |-> m.classifier, epochs |-> epochs,
     state_dict |-> state_dict(m),
     class_to_idx |-> class_to_idx,
     optimizer |-> opt]

\* ------------------------------------------------------------- main
Init ==
    /\ pc = "parse_args"
    /\ args \in ArgSpace
    /\ trainBatches \in 1..MaxBatches
    /\ validBatches \in 1..MaxValBatches
    /\ model = NoModel
    /\ optimizer = NoOptimizer
    /\ assembled = state_dict(NoModel)
    /\ epoch = 0 /\ batch = 0 /\ steps = 0
    /\ running_loss = 0 /\ lossLog = <<>>
    /\ vbatch = 0 /\ visited = <<>>
    /\ test_loss = 0 /\ accuracy = 0
    /\ reports = <<>>
    /\ disk = <<>>
    /\ saveCalls = 0
    /\ lmResult = NoResult

ParseArgs ==
    /\ pc = "parse_args"
    /\ pc' = IF ArchAccepted(args.arch) THEN "load_model" ELSE "usage_error"
    /\ UNCHANGED <<args, trainBatches, validBatches, model, optimizer, assembled,
                   loopVars, disk, saveCalls, lmResult>>

\* main, lines 153-156: load_model, then the optimizer over the head
LoadModel ==
    /\ pc = "load_model"
    /\ LET r == load_model(args.arch, args.hidden_units, args.gpu)
       IN  /\ lmResult' = r
           /\ model' = r.model
           /\ assembled' = state_dict(r.model)
           /\ optimizer' = Adam(HeadParams, args.learning_rate)
    /\ pc' = "train_model"
    /\ UNCHANGED <<args, trainBatches, validBatches, loopVars, disk, saveCalls>>

\* main, lines 144-153: a missing data folder or cat_to_name.json, or no
\* CUDA device for --gpu, raises before train_model is entered
SetupFails ==
    /\ pc = "load_model"
    /\ pc' = "setup_error"
    /\ UNCHANGED <<args, trainBatches, validBatches, model, optimizer, assembled,
                   loopVars, disk, saveCalls, lmResult>>

\* train_model, lines 61-63
TrainEnter ==
    /\ pc = "train_model"
    /\ steps' = 0 /\ running_loss' = 0
    /\ epoch' = 0 /\ batch' = 0
    /\ pc' = "training"
    /\ UNCHANGED <<args, trainBatches, validBatches, model, optimizer, assembled,
                   lossLog, vbatch, visited, test_loss, accuracy, reports,
                   disk, saveCalls, lmResult>>

\* one pass of the inner loop body, lines 70-82
TrainStep ==
    /\ pc = "training"
    /\ EpochLoopContinues(epoch, args.epochs)
    /\ batch < trainBatches
    /\ \E l \in Losses :
         /\ running_loss' = AccumulateLoss(running_loss, l)
         /\ lossLog' = Append(lossLog, l)
    /\ steps' = steps + 1
    /\ batch' = batch + 1
    /\ optimizer' = [optimizer EXCEPT !.step = @ + 1]
    /\ IF ValidationDue(steps + 1)
       THEN /\ test_loss' = 0 /\ accuracy' = 0
            /\ vbatch' = 0 /\ visited' = <<>>
            /\ model' = [model EXCEPT !.params = OptimizerStep(model, optimizer),
                                      !.training = FALSE]
            /\ pc' = "validating"
       ELSE /\ model' = [model EXCEPT !.params = OptimizerStep(model, optimizer)]
            /\ UNCHANGED <<test_loss, accuracy, vbatch, visited, pc>>
    /\ UNCHANGED <<args, trainBatches, validBatches, assembled, epoch, reports,
                   disk, saveCalls, lmResult>>

\* the forward or backward pass of a training batch raises
TrainStepFails ==
    /\ pc = "training"
    /\ EpochLoopContinues(epoch, args.epochs)
    /\ batch < trainBatches
    /\ steps' = steps + 1
    /\ batch' = batch + 1
    /\ pc' = OnBatchFailure
    /\ UNCHANGED <<args, trainBatches, validBatches, model, optimizer, assembled,
                   epoch, running_loss, lossLog, vbatch, visited, test_loss,
                   accuracy, reports, disk, saveCalls, lmResult>>

\* the trainloader is exhausted: next iteration of the epoch loop
NextEpoch ==
    /\ pc = "training"
    /\ EpochLoopContinues(epoch, args.epochs)
    /\ batch = trainBatches
    /\ epoch' = epoch + 1
    /\ batch' = 0
    /\ UNCHANGED <<pc, args, trainBatches, validBatches, model, optimizer, assembled,
                   steps, running_loss, lossLog, vbatch, visited, test_loss,
                   accuracy, reports, disk, saveCalls, lmResult>>

\* one validation batch, lines 85-93
ValidateBatch ==
    /\ pc = "validating"
    /\ vbatch < validBatches
    /\ \E o \in ValOutcomes :
         /\ test_loss' = test_loss + o[1]
         /\ accuracy' = accuracy + o[2]
    /\ vbatch' = vbatch + 1
    /\ visited' = Append(visited, vbatch + 1)
    /\ UNCHANGED <<pc, args, trainBatches, validBatches, model, optimizer, assembled,
                   epoch, batch, steps, running_loss, lossLog, reports,
                   disk, saveCalls, lmResult>>

ValidateBatchFails ==
    /\ pc = "validating"
    /\ vbatch < validBatches
    /\ vbatch' = vbatch + 1
    /\ pc' = OnBatchFailure
    /\ UNCHANGED <<args, trainBatches, validBatches, model, optimizer, assembled,
                   epoch, batch, steps, running_loss, lossLog, visited, test_loss,
                   accuracy, reports, disk, saveCalls, lmResult>>

\* lines 95-100: print the report, reset running_loss, model.train()
Report ==
    /\ pc = "validating"
    /\ vbatch = validBatches
    /\ reports' = Append(reports, [epoch |-> epoch + 1, steps |-> steps, batch |-> batch])
    /\ running_loss' = 0
    /\ lossLog' = <<>>
    /\ model' = [model EXCEPT !.training = ModeAfterReport]
    /\ pc' = "training"
    /\ UNCHANGED <<args, trainBatches, validBatches, optimizer, assembled,
                   epoch, batch, steps, vbatch, visited, test_loss, accuracy,
                   disk, saveCalls, lmResult>>

\* range(epochs) is exhausted: train_model returns to main
TrainReturn ==
    /\ pc = "training"
    /\ ~EpochLoopContinues(epoch, args.epochs)
    /\ pc' = "save"
    /\ UNCHANGED <<args, trainBatches, validBatches, model, optimizer, assembled,
                   loopVars, disk, saveCalls, lmResult>>

\* main, lines 160-163, and save_checkpoint
SaveCheckpoint ==
    /\ pc = "save"
    /\ model' = [model EXCEPT !.class_to_idx = TrainClassToIdx]
    /\ disk' = <<Bundle(model', TrainClassToIdx, args.epochs, optimizer,
                        args.learning_rate, lmResult.num_in_features, output_size,
                        args.arch, args.hidden_units)>>
    /\ saveCalls' = saveCalls + 1
    /\ pc' = "done"
    /\ UNCHANGED <<args, trainBatches, validBatches, optimizer, assembled,
                   loopVars, lmResult>>

Next ==
    \/ ParseArgs
    \/ LoadModel
    \/ SetupFails
    \/ TrainEnter
    \/ TrainStep
    \/ TrainStepFails
    \/ NextEpoch
    \/ ValidateBatch
    \/ ValidateBatchFails
    \/ Report
    \/ TrainReturn
    \/ SaveCheckpoint

Spec == Init /\ [][Next]_vars

\* ------------------------------------------ direct calls of load_model
LMInit ==
    /\ pc = "call_load_model"
    /\ args \in [arch : ArchNames, hidden_units : 1..MaxHidden, epochs : {1},
                 gpu : BOOLEAN, learning_rate : {DefaultLrn},
                 save_dir : {DefaultSaveDir}]
    /\ trainBatches = 1
    /\ validBatches = 1
    /\ model = NoModel
    /\ optimizer = NoOptimizer
    /\ assembled = state_dict(NoModel)
    /\ epoch = 0 /\ batch = 0 /\ steps = 0
    /\ running_loss = 0 /\ lossLog = <<>>
    /\ vbatch = 0 /\ visited = <<>>
    /\ test_loss = 0 /\ accuracy = 0
    /\ reports = <<>>
    /\ disk = <<>>
    /\ saveCalls = 0
    /\ lmResult = NoResult

LoadModelCall ==
    /\ pc = "call_load_model"
    /\ lmResult' = load_model(args.arch, args.hidden_units, args.gpu)
    /\ model' = lmResult'.model
    /\ assembled' = state_dict(lmResult'.model)
    /\ pc' = "returned"
    /\ UNCHANGED <<args, trainBatches, validBatches, optimizer, loopVars,
                   disk, saveCalls>>

LMNext == LoadModelCall

SpecLoadModel == LMInit /\ [][LMNext]_vars

\* --------------------------------------------- Load (checkpoint reader)
\* The reader of the artifact: the registry of the two backbones and the
\* reconstruction from the stored architecture name and hidden_units.
Registry(name) ==
    IF name = "vgg16" THEN [status |-> "ok", backbone |-> "vgg16", feature_width |-> VggFeatures]
    ELSE IF name = "densenet121"
         THEN [status |-> "ok", backbone |-> "densenet121", feature_width |-> DenseFeatures]
         ELSE [status |-> "UnsupportedArchitecture", backbone |-> "", feature_width |-> 0]

Load(c) ==
    LET r == Registry(c.pretrained_model)
    IN  IF r.status # "ok"
        THEN [status |-> r.status, model |-> NoModel, optimizer |-> NoOptimizer]
        ELSE [status |-> "ok",
              model |-> [backbone |-> r.backbone,
                         classifier |-> NewClassifier(r.feature_width, c.hidden_units),
                         params |-> c.state_dict,
                         requires_grad |-> FreezeAll(BackboneParams)
                                             @@ [p \in HeadParams |-> TRUE],
                         training |-> TRUE,
                         class_to_idx |-> c.class_to_idx,
                         device |-> "cpu"],
              optimizer |-> c.optimizer]

\* ------------------------------------------------------------ helpers
RECURSIVE SumSeq(_)
SumSeq(s) == IF s = <<>> THEN 0 ELSE Head(s) + SumSeq(Tail(s))

TotalSteps == args.epochs * trainBatches

\* the reports of a run of E epochs over B batches that validates at
\* every cumulative multiple of print_every
ExpectedReports(E, B) ==
    [i \in 1..((E * B) \div print_every) |->
        [epoch |-> ((print_every * i - 1) \div B) + 1,
         steps |-> print_every * i,
         batch |-> ((print_every * i - 1) % B) + 1]]

ReportsOfEpoch(e) == {i \in 1..Len(reports) : reports[i].epoch = e}

Assembled == pc \in {"train_model", "training", "validating", "save", "done", "failed"}

\* ------------------------------------------------------------- claims

\* C1 as stated: with 12 train batches per epoch, every epoch of the run has
\* exactly two validations, after its 5th and its 10th batch, and
\* running_loss is zero right after each report.
C1_EveryEpochTwice ==
    trainBatches = 12 =>
        /\ \A i \in 1..Len(reports) : reports[i].batch \in {5, 10}
        /\ \A e \in 1..epoch : Cardinality(ReportsOfEpoch(e)) = 2
        /\ (pc = "training" /\ steps > 0 /\ steps % print_every = 0 => running_loss = 0)

\* C1 amended: with 12 train batches per epoch, the first epoch has exactly
\* two validations, after its 5th and its 10th batch; over the whole run a
\* validation happens at every cumulative multiple of 5 steps, wherever
\* that falls in a later epoch; running_loss is zero right after each report.
C1_Cadence ==
    trainBatches = 12 =>
        /\ \A i \in ReportsOfEpoch(1) : reports[i].batch \in {5, 10}
        /\ (epoch >= 1 => Cardinality(ReportsOfEpoch(1)) = 2)
        /\ \A i \in 1..Len(reports) :
              /\ reports[i].steps = print_every * i
              /\ reports[i].steps = (reports[i].epoch - 1) * 12 + reports[i].batch
        /\ (pc = "training" /\ steps > 0 /\ steps % print_every = 0 => running_loss = 0)

C1_Witness ==
    /\ trainBatches = 12 /\ pc = "training"
    /\ Len(reports) = 3 /\ reports[3].epoch = 2 /\ reports[3].batch = 3
    /\ steps = 15 /\ running_loss = 0

\* C2: a call of load_model with a name that is neither vgg16 nor
\* densenet121 ends in UnsupportedArchitecture and yields no model.
C2_UnsupportedFails ==
    (pc = "returned" /\ args.arch \notin ArchChoices) =>
        /\ lmResult.status = "UnsupportedArchitecture"
        /\ model = NoModel

\* C3: the artifact holds the architecture name, hidden_units, every
\* parameter value, class_to_idx and the optimizer state as they are at save
\* time, and Load of it alone rebuilds the same topology, parameters,
\* class_to_idx and optimizer.
C3_RoundTrip ==
    pc = "done" =>
        /\ Len(disk) = 1
        /\ disk[1].pretrained_model = args.arch
        /\ disk[1].hidden_units = args.hidden_units
        /\ disk[1].state_dict = model.params
        /\ disk[1].class_to_idx = model.class_to_idx
        /\ disk[1].optimizer = optimizer
        /\ LET l == Load(disk[1])
           IN  /\ l.status = "ok"
               /\ l.model.backbone = model.backbone
               /\ l.model.classifier = model.classifier
               /\ l.model.params = model.params
               /\ l.model.requires_grad = model.requires_grad
               /\ l.model.class_to_idx = model.class_to_idx
               /\ l.model.class_to_idx = TrainClassToIdx
               /\ l.optimizer = optimizer

C3_Witness ==
    /\ pc = "done" /\ Len(disk) = 1
    /\ optimizer.step >= print_every
    /\ model.params["classifier.fc1"] > 0
    /\ Len(reports) >= 1 /\ running_loss > 0

\* C4: from the return of load_model on, the trainable parameters are
\* exactly the head's, the optimizer holds exactly the head's, every
\* backbone parameter has its value of assembly, and the head's parameters
\* have moved once per optimizer update.
C4_OnlyHeadTrains ==
    Assembled =>
        /\ {p \in AllParams : model.requires_grad[p]} = HeadParams
        /\ optimizer.params = HeadParams
        /\ \A p \in BackboneParams : model.params[p] = assembled[p]
        /\ \A p \in HeadParams : model.params[p] = assembled[p] + optimizer.step

C4_Witness ==
    /\ pc = "save" /\ optimizer.step >= 2 * print_every
    /\ Len(reports) >= 2
    /\ \A p \in HeadParams : model.params[p] > assembled[p]
    /\ \A p \in BackboneParams : model.params[p] = PretrainedWeights(args.arch)

\* C5: with epochs=0 there is no training step, no validation pass, no
\* report and no failure, and the checkpoint written holds the parameters
\* of the freshly assembled model and epochs = 0.
C5_ZeroEpochs ==
    args.epochs = 0 =>
        /\ steps = 0 /\ optimizer.step = 0
        /\ vbatch = 0 /\ visited = <<>>
        /\ reports = <<>>
        /\ pc \notin {"validating", "failed"}
        /\ (pc = "done" =>
              /\ Len(disk) = 1
              /\ disk[1].state_dict = assembled
              /\ disk[1].state_dict = state_dict(load_model(args.arch, args.hidden_units, args.gpu).model)
              /\ disk[1].epochs = 0)

C5_Witness ==
    /\ args.epochs = 0 /\ pc = "done" /\ saveCalls = 1
    /\ trainBatches >= print_every /\ validBatches >= 2

\* C6: after a failed batch nothing more happens and nothing is saved; a
\* checkpoint exists only when every step of every epoch was applied.
C6_FailureIsFatal ==
    /\ (pc \in {"failed", "setup_error"} =>
          disk = <<>> /\ saveCalls = 0 /\ ~ENABLED Next)
    /\ (disk # <<>> \/ saveCalls > 0 =>
          /\ pc = "done"
          /\ steps = TotalSteps
          /\ optimizer.step = steps
          /\ Len(reports) = steps \div print_every)

C6_Witness ==
    /\ pc = "failed" /\ disk = <<>>
    /\ Len(reports) >= 1 /\ vbatch >= 1 /\ steps = 2 * print_every

\* C7: whatever the losses and accuracies were, a run that ends has made
\* epochs * trainBatches steps, the reports the cadence alone fixes, and
\* one save_checkpoint call, made after the last step.
C7_MetricsDoNotSteer ==
    /\ saveCalls <= 1
    /\ (saveCalls = 1 <=> pc = "done")
    /\ (pc \in {"save", "done"} =>
          /\ steps = TotalSteps
          /\ optimizer.step = TotalSteps
          /\ reports = ExpectedReports(args.epochs, trainBatches))

C7_Witness ==
    /\ pc = "done" /\ saveCalls = 1 /\ args.epochs = 2
    /\ Len(reports) >= 2 /\ test_loss = 2 * validBatches /\ running_loss >= 2

\* C8: running_loss is the sum of the losses of the steps since the last
\* report (or the start), and a report is made over exactly print_every
\* of them.
C8_RunningLossWindow ==
    pc \in {"training", "validating", "save", "done"} =>
        /\ running_loss = SumSeq(lossLog)
        /\ Len(lossLog) = IF pc = "validating" THEN print_every ELSE steps % print_every

\* a report whose five steps span an epoch boundary
C8_Witness ==
    /\ pc = "validating" /\ vbatch = validBatches
    /\ epoch >= 1 /\ batch \in 1..(print_every - 1)
    /\ Len(lossLog) = print_every /\ running_loss > print_every

\* C9: a validation pass visits the validation batches once each, in order,
\* in evaluation mode; its steps leave parameters, optimizer, step counter
\* and epoch position alone; it ends in training mode with running_loss
\* zero, and every training step starts in training mode.
C9_ValidationFrame ==
    /\ [](pc = "validating" =>
            /\ ~model.training
            /\ visited = [i \in 1..vbatch |-> i]
            /\ vbatch <= validBatches)
    /\ [](pc = "training" => model.training)
    /\ [][pc = "validating" =>
            /\ model'.params = model.params
            /\ model'.requires_grad = model.requires_grad
            /\ optimizer' = optimizer
            /\ steps' = steps /\ epoch' = epoch /\ batch' = batch
            /\ lossLog' = lossLog \/ pc' = "training"
            /\ (pc' = "training" =>
                  /\ visited = [i \in 1..validBatches |-> i]
                  /\ running_loss' = 0
                  /\ model'.training)]_vars

C9_Witness ==
    /\ pc = "training" /\ model.training /\ running_loss = 0
    /\ Len(reports) >= 1 /\ validBatches >= 2
    /\ visited = [i \in 1..validBatches |-> i]

\* C10: the step counter runs over the whole run: steps is the number of
\* batches pulled in all epochs so far, report i is made at step 5 i, and a
\* finished run of E epochs over B batches has floor(E B / 5) reports and
\* (E B mod 5) applied but unreported losses.
C10_CumulativeSteps ==
    /\ steps = epoch * trainBatches + batch
    /\ \A i \in 1..Len(reports) : reports[i].steps = print_every * i
    /\ (pc \in {"training", "save", "done"} => Len(reports) = steps \div print_every)
    /\ (pc = "validating" =>
          steps % print_every = 0 /\ Len(reports) = steps \div print_every - 1)
    /\ (pc \in {"save", "done"} =>
          /\ Len(reports) = TotalSteps \div print_every
          /\ Len(lossLog) = TotalSteps % print_every
          /\ \A p \in HeadParams : model.params[p] = assembled[p] + TotalSteps)

C10_Witness ==
    /\ pc = "done" /\ args.epochs = 1 /\ trainBatches = 10
    /\ Len(reports) = 2 /\ reports[1].steps = 5 /\ reports[2].steps = 10

====
